---- MODULE Spec2Model ----
(***************************************************************************)
(* A model of tdp.core.dag.Dag: the lazily cached merge of the collections' *)
(* operations, the validator, the dependency graph and the ordering        *)
(* queries (lexicographic topological sort, ancestor and descendant        *)
(* closures).                                                              *)
(***************************************************************************)
EXTENDS Integers, Sequences, FiniteSets, TLC

VARIABLES collections, operations, graph, services_operations, services, last

vars == <<collections, operations, graph, services_operations, services, last>>

-----------------------------------------------------------------------------
(* Bounds of the model.                                                    *)

\* dependencies one ordering input declares at most, all operations together
MaxDependencies == 3
\* nodes passed to one closure query at most
MaxNodes == 2
\* collections of one lifecycle input at most
MaxCollections == 2

-----------------------------------------------------------------------------
(* Strings. A Python str is the sequence of its characters' code points,   *)
(* so that sorted(), endswith() and the comparison of the sort keys are    *)
(* computed on characters as Python computes them.                         *)

Digits == <<"0", "1", "2", "3", "4", "5", "6", "7", "8", "9">>

Letters == <<"a", "b", "c", "d", "e", "f", "g", "h", "i", "j", "k", "l", "m",
             "n", "o", "p", "q", "r", "s", "t", "u", "v", "w", "x", "y", "z">>

\* ord(c) for the characters the names and keys are made of
Ord(c) ==
    IF c = "_" THEN 95
    ELSE IF \E i \in DOMAIN Digits : Digits[i] = c
         THEN 47 + (CHOOSE i \in DOMAIN Digits : Digits[i] = c)
         ELSE 96 + (CHOOSE i \in DOMAIN Letters : Letters[i] = c)

\* a str literal, written as the sequence of its characters
Str(chars) == [i \in DOMAIN chars |-> Ord(chars[i])]

Underscore == Str(<<"_">>)

RECURSIVE StrLessFrom(_, _, _)
StrLessFrom(a, b, i) ==
    IF i > Len(a) THEN i <= Len(b)
    ELSE IF i > Len(b) THEN FALSE
    ELSE IF a[i] # b[i] THEN a[i] < b[i]
    ELSE StrLessFrom(a, b, i + 1)

\* a < b on str
StrLess(a, b) == StrLessFrom(a, b, 1)

\* a.endswith(suffix)
EndsWith(a, suffix) ==
    /\ Len(suffix) <= Len(a)
    /\ SubSeq(a, Len(a) - Len(suffix) + 1, Len(a)) = suffix

\* the smallest str of a non-empty set
MinStr(S) == CHOOSE a \in S : \A b \in S : b = a \/ StrLess(a, b)

RECURSIVE SortedFrom(_, _)
SortedFrom(S, out) ==
    IF S = {} THEN out
    ELSE LET a == MinStr(S) IN SortedFrom(S \ {a}, Append(out, a))

\* sorted(S) for a collection of distinct str
Sorted(S) == SortedFrom(S, <<>>)

Range(seq) == {seq[i] : i \in DOMAIN seq}

RECURSIVE Flatten(_)
Flatten(seqs) ==
    IF seqs = <<>> THEN <<>> ELSE Head(seqs) \o Flatten(Tail(seqs))

-----------------------------------------------------------------------------
(* None and the cached values: a cache is None or holds one value.         *)

None == <<>>
Some(v) == <<v>>

-----------------------------------------------------------------------------
(* Operation: the name encodes the service and the action.                 *)

install == Str(<<"i", "n", "s", "t", "a", "l", "l">>)
config  == Str(<<"c", "o", "n", "f", "i", "g">>)
start   == Str(<<"s", "t", "a", "r", "t">>)
init    == Str(<<"i", "n", "i", "t">>)
check   == Str(<<"c", "h", "e", "c", "k">>)

hdfs == Str(<<"h", "d", "f", "s">>)
knox == Str(<<"k", "n", "o", "x">>)
db   == Str(<<"d", "b">>)

\* the operation name of a service's action
OpName(service, action) == service \o Underscore \o action

LastUnderscore(name) ==
    LET at == {i \in DOMAIN name : name[i] = 95}
    IN  IF at = {} THEN 0 ELSE CHOOSE i \in at : \A j \in at : j <= i

\* operation.action: the trailing suffix of the name
ActionOf(name) == SubSeq(name, LastUnderscore(name) + 1, Len(name))

\* operation.service: the remaining prefix of the name
ServiceOf(name) ==
    IF LastUnderscore(name) = 0 THEN name
    ELSE SubSeq(name, 1, LastUnderscore(name) - 1)

actions_order == <<install, config, start, init>>

\* operation.is_service(): the operation is one of the lifecycle actions
IsService(name) == ActionOf(name) \in Range(actions_order)

\* Operation(collection_name=collection_name, **operation)
Operation(collection_name, declaration) ==
    [name |-> declaration.name,
     collection_name |-> collection_name,
     depends_on |-> declaration.depends_on,
     noop |-> declaration.noop]

-----------------------------------------------------------------------------
(* The sort key of topological_sort.                                       *)

DEFAULT_SERVICE_PRIORITY == 99

exporter  == Str(<<"e", "x", "p", "o", "r", "t", "e", "r">>)
zookeeper == Str(<<"z", "o", "o", "k", "e", "e", "p", "e", "r">>)
hadoop    == Str(<<"h", "a", "d", "o", "o", "p">>)
ranger    == Str(<<"r", "a", "n", "g", "e", "r">>)
yarn      == Str(<<"y", "a", "r", "n">>)
hive      == Str(<<"h", "i", "v", "e">>)
hbase     == Str(<<"h", "b", "a", "s", "e">>)
spark     == Str(<<"s", "p", "a", "r", "k">>)
spark3    == Str(<<"s", "p", "a", "r", "k", "3">>)

SERVICE_PRIORITY ==
    <<exporter, zookeeper, hadoop, ranger, hdfs, yarn, hive, hbase, spark,
      spark3, knox>>

\* SERVICE_PRIORITY.get(service, DEFAULT_SERVICE_PRIORITY)
PriorityOf(service) ==
    IF \E i \in DOMAIN SERVICE_PRIORITY : SERVICE_PRIORITY[i] = service
    THEN CHOOSE i \in DOMAIN SERVICE_PRIORITY : SERVICE_PRIORITY[i] = service
    ELSE DEFAULT_SERVICE_PRIORITY

RECURSIVE DecimalDigits(_)
DecimalDigits(n) ==
    IF n < 10 THEN <<48 + n>>
    ELSE Append(DecimalDigits(n \div 10), 48 + (n % 10))

\* the format without the zero padding: f"{n:d}"
FormatUnpadded(n) == DecimalDigits(n)

\* f"{n:02d}": the decimal digits, zero-padded on the left to two characters
Format02d(n) ==
    IF n < 10 THEN <<48>> \o DecimalDigits(n) ELSE DecimalDigits(n)

\* self.operations[node], for a name of the merged operations
OperationOf(ops, name) ==
    ops[CHOOSE i \in DOMAIN ops : ops[i].name = name]

OperationNames(ops) == {ops[i].name : i \in DOMAIN ops}

\* custom_key(node) == f"{operation_priority:02d}_{node}"
custom_key(ops, node) ==
    Format02d(PriorityOf(ServiceOf(OperationOf(ops, node).name)))
        \o Underscore \o node

-----------------------------------------------------------------------------
(* The graph: nx.DiGraph as its nodes and its edges dependency -> dependent. *)

\* a wrong in-degree: every node counts as ready
ZeroIndegreeIgnoringEdges(nodes, edges) == nodes

\* the nodes of G with no predecessor among `nodes` (in-degree 0 in the subgraph)
ZeroIndegree(nodes, edges) ==
    {n \in nodes : ~ \E m \in nodes : <<m, n>> \in edges}

RECURSIVE PeelsToEmpty(_, _)
PeelsToEmpty(nodes, edges) ==
    IF nodes = {} THEN TRUE
    ELSE LET ready == {n \in nodes : ~ \E m \in nodes : <<m, n>> \in edges}
         IN  IF ready = {} THEN FALSE
             ELSE PeelsToEmpty(nodes \ ready, edges)

\* an acyclicity test that accepts every graph
AcceptsEveryGraph(G) == TRUE

\* nx.is_directed_acyclic_graph(G): a topological sort consumes every node
is_directed_acyclic_graph(G) == PeelsToEmpty(G.nodes, G.edges)

RECURSIVE BackwardClosure(_, _)
BackwardClosure(edges, S) ==
    LET more == {e[1] : e \in {f \in edges : f[2] \in S}} \ S
    IN  IF more = {} THEN S ELSE BackwardClosure(edges, S \cup more)

RECURSIVE ForwardClosure(_, _)
ForwardClosure(edges, S) ==
    LET more == {e[2] : e \in {f \in edges : f[1] \in S}} \ S
    IN  IF more = {} THEN S ELSE ForwardClosure(edges, S \cup more)

\* the direct predecessors only
PredecessorsOnly(G, node) == {e[1] : e \in {f \in G.edges : f[2] = node}} \ {node}

\* nx.ancestors(G, node): the nodes with a path to node, node excluded
ancestors(G, node) == BackwardClosure(G.edges, {node}) \ {node}

\* the direct successors only
SuccessorsOnly(G, node) == {e[2] : e \in {f \in G.edges : f[1] = node}} \ {node}

\* nx.descendants(G, node): the nodes reachable from node, node excluded
descendants(G, node) == ForwardClosure(G.edges, {node}) \ {node}

\* G.subgraph(nodes): the subgraph induced on the nodes of G among `nodes`
subgraph(G, nodes) ==
    [nodes |-> G.nodes \cap nodes,
     edges |-> {e \in G.edges : e[1] \in nodes /\ e[2] \in nodes}]

\* the node of `ready` the heap pops: the one with the smallest key
PopMin(key, ready) ==
    CHOOSE n \in ready : \A m \in ready : m = n \/ StrLess(key[n], key[m])

RECURSIVE LexTopoFrom(_, _, _, _)
LexTopoFrom(key, nodes, edges, out) ==
    LET ready == ZeroIndegree(nodes, edges)
    IN  IF ready = {} THEN out
        ELSE LET n == PopMin(key, ready)
             IN  LexTopoFrom(key, nodes \ {n}, edges, Append(out, n))

\* list(nx.lexicographical_topological_sort(G, custom_key))
lexicographical_topological_sort(ops, G) ==
    LexTopoFrom([n \in G.nodes |-> custom_key(ops, n)], G.nodes, G.edges, <<>>)

-----------------------------------------------------------------------------
(* Dag.operations: the merge of the collections' declarations.             *)

\* operations_list of one collection: its dag files' declarations, in order
OperationsList(collection) == Flatten(collection.dag_yamls)

\* every declaration with its collection's name, in the order of the loops
Declared(colls) ==
    Flatten([c \in DOMAIN colls |->
        [i \in DOMAIN OperationsList(colls[c]) |->
            [collection_name |-> colls[c].name,
             declaration |-> OperationsList(colls[c])[i]]]])

\* a merge step in which a second declaration replaces the first
MergeOneShadowing(merged, collection_name, declaration) ==
    [err |-> "none", first |-> "", second |-> "",
     operations |->
        IF declaration.name \in OperationNames(merged)
        THEN [i \in DOMAIN merged |->
                IF merged[i].name = declaration.name
                THEN Operation(collection_name, declaration) ELSE merged[i]]
        ELSE Append(merged, Operation(collection_name, declaration))]

\* one iteration of the loop over operations_list (lines 122-134)
MergeOne(merged, collection_name, declaration) ==
    IF declaration.name \in OperationNames(merged)
    THEN [err |-> "duplicate",
          first |-> OperationOf(merged, declaration.name).collection_name,
          second |-> collection_name,
          operations |-> merged]
    ELSE [err |-> "none", first |-> "", second |-> "",
          operations |-> Append(merged, Operation(collection_name, declaration))]

RECURSIVE MergeFrom(_, _, _)
MergeFrom(declared, i, merged) ==
    IF i > Len(declared)
    THEN [err |-> "none", first |-> "", second |-> "", operations |-> merged]
    ELSE LET r == MergeOne(merged, declared[i].collection_name,
                           declared[i].declaration)
         IN  IF r.err # "none" THEN r
             ELSE MergeFrom(declared, i + 1, r.operations)

\* the loops of lines 113-134 over self._collections
Merge(colls) == MergeFrom(Declared(colls), 1, <<>>)

-----------------------------------------------------------------------------
(* Dag.validate: the warnings it logs, in order, and the KeyError of       *)
(* self.operations[dependency] for a dependency that no source declares.   *)

Warning(rule, operation, dependency, actions, collection_name) ==
    [rule |-> rule, operation |-> operation, dependency |-> dependency,
     actions |-> actions, collection |-> collection_name]

\* self._collections[collection_name]
CollectionOf(colls, collection_name) ==
    colls[CHOOSE c \in DOMAIN colls : colls[c].name = collection_name]

\* the warnings of one dependency of one operation (lines 275-293)
DependencyWarnings(ops, op, dependency) ==
        (IF /\ EndsWith(dependency, Underscore \o start)
            /\ ServiceOf(OperationOf(ops, dependency).name) # ServiceOf(op.name)
         THEN <<Warning("start_outside_service", op.name, dependency, {},
                        op.collection_name)>>
         ELSE <<>>)
        \o
        (IF /\ EndsWith(op.name, Underscore \o install)
            /\ ~ EndsWith(dependency, Underscore \o install)
         THEN <<Warning("install_depends_on_other", op.name, dependency, {},
                        op.collection_name)>>
         ELSE <<>>)

\* the index of the action in actions_order, 0 when it is not there
ActionIndex(action) ==
    IF action \in Range(actions_order)
    THEN CHOOSE i \in DOMAIN actions_order : actions_order[i] = action
    ELSE 0

\* the warning of lines 302-323: a lifecycle action other than the first
\* has to depend on the previous action of its service
PreviousActionWarnings(op) ==
    IF IsService(op.name) /\ ActionIndex(ActionOf(op.name)) > 1
    THEN LET previous_action == actions_order[ActionIndex(ActionOf(op.name)) - 1]
             previous_service_action ==
                 OpName(ServiceOf(op.name), previous_action)
         IN  IF \E i \in DOMAIN op.depends_on :
                    op.depends_on[i] = previous_service_action
             THEN <<>>
             ELSE <<Warning("missing_previous_action", op.name,
                            previous_service_action, {}, op.collection_name)>>
    ELSE <<>>

\* the warnings of lines 327-337: noop operations have no playbook, the others one
PlaybookWarnings(colls, op) ==
    IF op.name \in CollectionOf(colls, op.collection_name).operations
    THEN IF op.noop
         THEN <<Warning("noop_with_playbook", op.name, <<>>, {},
                        op.collection_name)>>
         ELSE <<>>
    ELSE IF ~ op.noop
         THEN <<Warning("missing_playbook", op.name, <<>>, {},
                        op.collection_name)>>
         ELSE <<>>

\* services_actions.setdefault(service, set()), then .add(action) for a
\* service operation (lines 298-300); a dict keeps its insertion order
AddServiceAction(services_actions, op) ==
    LET service == ServiceOf(op.name)
        added == IF IsService(op.name) THEN {ActionOf(op.name)} ELSE {}
    IN  IF \E i \in DOMAIN services_actions : services_actions[i].service = service
        THEN [i \in DOMAIN services_actions |->
                IF services_actions[i].service = service
                THEN [services_actions[i] EXCEPT !.actions = @ \cup added]
                ELSE services_actions[i]]
        ELSE Append(services_actions, [service |-> service, actions |-> added])

\* the first dependency of the list that is no key of self.operations, or 0
FirstUnknown(ops, depends_on) ==
    LET unknown == {i \in DOMAIN depends_on :
                        depends_on[i] \notin OperationNames(ops)}
    IN  IF unknown = {} THEN 0
        ELSE CHOOSE i \in unknown : \A j \in unknown : i <= j

\* the warnings of the dependencies before the k-th (all of them when k = 0)
DependenciesWarnings(ops, op, k) ==
    Flatten([i \in 1..(IF k = 0 THEN Len(op.depends_on) ELSE k - 1) |->
                DependencyWarnings(ops, op, op.depends_on[i])])

\* one iteration of the loop of line 271; k is the first unknown dependency
ValidateOperationAt(colls, ops, acc, op, k) ==
    IF k # 0
    THEN [err |-> "key_error",
          warnings |-> acc.warnings \o DependenciesWarnings(ops, op, k),
          services_actions |-> acc.services_actions]
    ELSE [err |-> "none",
          warnings |-> acc.warnings \o DependenciesWarnings(ops, op, k)
                           \o PreviousActionWarnings(op)
                           \o PlaybookWarnings(colls, op),
          services_actions |-> AddServiceAction(acc.services_actions, op)]

ValidateOperation(colls, ops, acc, op) ==
    ValidateOperationAt(colls, ops, acc, op, FirstUnknown(ops, op.depends_on))

RECURSIVE ValidateFrom(_, _, _, _)
ValidateFrom(colls, ops, i, acc) ==
    IF i > Len(ops) \/ acc.err # "none" THEN acc
    ELSE ValidateFrom(colls, ops, i + 1,
                      ValidateOperation(colls, ops, acc, ops[i]))

actions_for_service == {install, config, start, init}

\* part 2 (lines 342-348): the services whose actions miss a lifecycle action
MissingActionWarnings(services_actions) ==
    Flatten([i \in DOMAIN services_actions |->
        IF actions_for_service \subseteq services_actions[i].actions
        THEN <<>>
        ELSE <<Warning("missing_lifecycle_action", services_actions[i].service,
                       <<>>, services_actions[i].actions, "")>>])

\* Dag.validate: [err, warnings]
validate(self) ==
    LET Looped(looped) ==
            IF looped.err # "none"
            THEN [err |-> looped.err, warnings |-> looped.warnings]
            ELSE [err |-> "none",
                  warnings |-> looped.warnings
                      \o MissingActionWarnings(looped.services_actions)]
    IN  Looped(ValidateFrom(self.collections, self.operations[1], 1,
                   [err |-> "none", warnings |-> <<>>,
                    services_actions |-> <<>>]))

-----------------------------------------------------------------------------
(* The Dag object and its properties. A property is an operator from the   *)
(* object to [self, err, log, ret]: the object after the call, the         *)
(* exception raised ("none" when the call returns), what the call logged   *)
(* and, for an ordering query, the list returned.                          *)

Self ==
    [collections |-> collections, operations |-> operations, graph |-> graph,
     services_operations |-> services_operations, services |-> services]

NoLog ==
    [validated |-> FALSE, validate_returned |-> FALSE, warnings |-> <<>>,
     first |-> "", second |-> "", missing |-> <<>>]

Result(self, err, log, ret) ==
    [self |-> self, err |-> err, log |-> log, ret |-> ret]

\* services.deleter
services_del(self) == [self EXCEPT !.services = None]

\* services_operations.deleter
services_operations_del(self) ==
    services_del([self EXCEPT !.services_operations = None])

\* graph.setter
graph_set(self, value) == [self EXCEPT !.graph = value]

\* graph.deleter
graph_del(self) == graph_set(self, None)

\* an operations setter that forgets the cached graph
operations_set_keeping_graph(self, value) ==
    services_del(services_operations_del([self EXCEPT !.operations = value]))

\* operations.setter
operations_set(self, value) ==
    services_del(services_operations_del(graph_del(
        [self EXCEPT !.operations = value])))

\* operations.deleter
operations_del(self) == operations_set(self, None)

\* collections.setter
collections_set(self, value) ==
    operations_del([self EXCEPT !.collections = value])

\* operations (getter)
operations_get(self) ==
    IF self.operations # None THEN Result(self, "none", NoLog, <<>>)
    ELSE LET Validated(cached, validated) ==
                 Result(cached, validated.err,
                        [NoLog EXCEPT !.validated = TRUE,
                            !.validate_returned = (validated.err = "none"),
                            !.warnings = validated.warnings], <<>>)
             Cached(cached) == Validated(cached, validate(cached))
             Merged(merged) ==
                 IF merged.err # "none"
                 THEN Result(self, merged.err,
                             [NoLog EXCEPT !.first = merged.first,
                                           !.second = merged.second], <<>>)
                 ELSE Cached([self EXCEPT !.operations = Some(merged.operations)])
         IN  Merged(Merge(self.collections))

\* the (dependency, operation) pairs of the operations, in the order of the
\* loops of lines 185-187
PairsOf(ops, operation_names) ==
    Flatten([i \in DOMAIN operation_names |->
        LET PairsWith(dependencies) ==
                [j \in DOMAIN dependencies |->
                    <<dependencies[j], operation_names[i]>>]
        IN  PairsWith(Sorted(Range(
                OperationOf(ops, operation_names[i]).depends_on)))])

DependencyPairs(ops) == PairsOf(ops, Sorted(OperationNames(ops)))

\* the first pair whose dependency is not in self.operations, or <<>>
FirstMissingOf(names, pairs) ==
    LET missing == {i \in DOMAIN pairs : pairs[i][1] \notin names}
    IN  IF missing = {} THEN <<>>
        ELSE pairs[CHOOSE i \in missing : \A j \in missing : i <= j]

\* DG after add_nodes_from and every add_edge
DiGraph(names, pairs) == [nodes |-> names, edges |-> Range(pairs)]

\* lines 181-198 of the graph getter, self.operations read
graph_build(read, names, pairs) ==
    LET Raised(missing) ==
            Result(read.self, "unknown_dependency",
                   [read.log EXCEPT !.missing = missing], <<>>)
        Checked(DG) ==
            IF is_directed_acyclic_graph(DG)
            THEN Result([read.self EXCEPT !.graph = Some(DG)], "none",
                        read.log, <<>>)
            ELSE Result(read.self, "not_a_dag", read.log, <<>>)
    IN  IF \E i \in DOMAIN pairs : pairs[i][1] \notin names
        THEN Raised(FirstMissingOf(names, pairs))
        ELSE Checked(DiGraph(names, pairs))

\* graph (getter)
graph_get(self) ==
    IF self.graph # None THEN Result(self, "none", NoLog, <<>>)
    ELSE LET Read(read) ==
                 IF read.err # "none" THEN read
                 ELSE graph_build(read,
                          OperationNames(read.self.operations[1]),
                          DependencyPairs(read.self.operations[1]))
         IN  Read(operations_get(self))

\* the service index of lines 155-158: service -> its operations, in order
RECURSIVE ServiceIndexFrom(_, _, _)
ServiceIndexFrom(ops, i, index) ==
    IF i > Len(ops) THEN index
    ELSE ServiceIndexFrom(ops, i + 1,
            IF \E k \in DOMAIN index : index[k].service = ServiceOf(ops[i].name)
            THEN [k \in DOMAIN index |->
                    IF index[k].service = ServiceOf(ops[i].name)
                    THEN [index[k] EXCEPT !.operations = Append(@, ops[i])]
                    ELSE index[k]]
            ELSE Append(index, [service |-> ServiceOf(ops[i].name),
                                operations |-> <<ops[i]>>]))

ServiceIndex(ops) == ServiceIndexFrom(ops, 1, <<>>)

\* services_operations (getter)
services_operations_get(self) ==
    IF self.services_operations # None THEN Result(self, "none", NoLog, <<>>)
    ELSE LET Read(read) ==
                 IF read.err # "none" THEN read
                 ELSE Result([read.self EXCEPT !.services_operations =
                                  Some(ServiceIndex(read.self.operations[1]))],
                             "none", read.log, <<>>)
         IN  Read(operations_get(
                 [self EXCEPT !.services_operations = Some(<<>>)]))

\* list(self.services_operations.keys())
ServiceKeys(index) == [k \in DOMAIN index |-> index[k].service]

\* services (getter)
services_get(self) ==
    IF self.services # None THEN Result(self, "none", NoLog, <<>>)
    ELSE LET Read(read) ==
                 IF read.err # "none" THEN read
                 ELSE Result([read.self EXCEPT !.services =
                                 Some(ServiceKeys(read.self.services_operations[1]))],
                             "none", read.log, <<>>)
         IN  Read(services_operations_get(self))

\* topological_sort(nodes), nodes a set of names (empty: falsy)
topological_sort(self, nodes) ==
    LET Read(read) ==
            IF read.err # "none" THEN read
            ELSE Result(read.self, "none", read.log,
                     lexicographical_topological_sort(
                         read.self.operations[1],
                         IF nodes # {} THEN subgraph(read.self.graph[1], nodes)
                         ELSE read.self.graph[1]))
    IN  Read(graph_get(self))

\* get_all_operations(): topological_sort(self.graph)
get_all_operations(self) ==
    LET Read(read) ==
            IF read.err # "none" THEN read
            ELSE [topological_sort(read.self, read.self.graph[1].nodes)
                     EXCEPT !.log = read.log]
    IN  Read(graph_get(self))

\* nodes_set after the loop of lines 231-232
AncestorsClosure(G, nodes) == nodes \cup UNION {ancestors(G, n) : n \in nodes}

\* get_operations_to_nodes(nodes)
get_operations_to_nodes(self, nodes) ==
    LET Read(read) ==
            IF read.err # "none" THEN read
            ELSE IF ~ (nodes \subseteq read.self.graph[1].nodes)
            THEN Result(read.self, "unknown_node", read.log, <<>>)
            ELSE [topological_sort(read.self,
                      IF nodes = {} THEN {}
                      ELSE AncestorsClosure(read.self.graph[1], nodes))
                     EXCEPT !.log = read.log]
    IN  Read(graph_get(self))

\* nodes_set after the loop of lines 237-238
DescendantsClosure(G, nodes) ==
    nodes \cup UNION {descendants(G, n) : n \in nodes}

\* get_operations_from_nodes(nodes)
get_operations_from_nodes(self, nodes) ==
    LET Read(read) ==
            IF read.err # "none" THEN read
            ELSE IF ~ (nodes \subseteq read.self.graph[1].nodes)
            THEN Result(read.self, "unknown_node", read.log, <<>>)
            ELSE [topological_sort(read.self,
                      IF nodes = {} THEN {}
                      ELSE DescendantsClosure(read.self.graph[1], nodes))
                     EXCEPT !.log = read.log]
    IN  Read(graph_get(self))

\* dag.operations.get(node, None) and the two checks of the run command
lookup(self, node) ==
    LET Read(read) ==
            IF read.err # "none" THEN read
            ELSE IF node \notin OperationNames(read.self.operations[1])
            THEN Result(read.self, "not_a_valid_node", read.log, <<>>)
            ELSE IF OperationOf(read.self.operations[1], node).noop
            THEN Result(read.self, "noop", read.log, <<>>)
            ELSE Result(read.self, "none", read.log, <<>>)
    IN  Read(operations_get(self))

-----------------------------------------------------------------------------
(* The inputs: collections, as the mapping Dag.__init__ receives. A         *)
(* collection has a name, the declarations of its dag files and the names  *)
(* of its playbooks.                                                       *)

Declaration(name, depends_on, noop) ==
    [name |-> name, depends_on |-> depends_on, noop |-> noop]

Collection(name, dag_yamls, playbooks) ==
    [name |-> name, dag_yamls |-> dag_yamls, operations |-> playbooks]

BoundedSubsets(S, k) == {T \in SUBSET S : Cardinality(T) <= k}

CollectionNames == <<"tdp_core", "tdp_extras", "tdp_observability", "tdp_site">>

hdfs_install == OpName(hdfs, install)
hdfs_config  == OpName(hdfs, config)
hdfs_start   == OpName(hdfs, start)
hdfs_init    == OpName(hdfs, init)
hdfs_check   == OpName(hdfs, check)
knox_install == OpName(knox, install)
knox_config  == OpName(knox, config)
db_install   == OpName(db, install)
db_config    == OpName(db, config)

\* the first half of a service's lifecycle
HdfsHead ==
    <<Declaration(hdfs_install, <<>>, FALSE),
      Declaration(hdfs_config, <<hdfs_install>>, FALSE)>>

\* its second half and one more operation of the service
HdfsTail ==
    <<Declaration(hdfs_start, <<hdfs_config>>, FALSE),
      Declaration(hdfs_init, <<hdfs_start>>, TRUE),
      Declaration(hdfs_check, <<hdfs_start>>, FALSE)>>

\* a service that depends on another service's start action
KnoxDag ==
    <<Declaration(knox_install, <<hdfs_start>>, FALSE),
      Declaration(knox_config, <<knox_install>>, TRUE)>>

\* two operations that depend on each other
DbCycle ==
    <<Declaration(db_install, <<db_config>>, FALSE),
      Declaration(db_config, <<db_install>>, FALSE)>>

\* the dag files and the playbooks a collection of the lifecycle inputs has
CollectionBodies ==
    {[dag_yamls |-> <<HdfsHead, HdfsTail>>,
      operations |-> {hdfs_install, hdfs_config, hdfs_start, hdfs_check}],
     [dag_yamls |-> <<HdfsHead>>, operations |-> {hdfs_install}],
     [dag_yamls |-> <<HdfsTail>>, operations |-> {hdfs_start, hdfs_init}],
     [dag_yamls |-> <<KnoxDag>>, operations |-> {knox_install, knox_config}],
     [dag_yamls |-> <<DbCycle>>, operations |-> {db_install, db_config}],
     [dag_yamls |-> <<HdfsHead, HdfsHead>>, operations |-> {hdfs_install}]}

\* the lifecycle inputs: up to MaxCollections collections, in order
LifecycleCollections ==
    UNION {{[i \in 1..n |-> Collection(CollectionNames[i], bodies[i].dag_yamls,
                                       bodies[i].operations)] :
                bodies \in [1..n -> CollectionBodies]} :
           n \in 0..MaxCollections}

\* the nodes the queries of the lifecycle inputs name
LifecycleNodes == {hdfs_start, knox_install, db_config}

\* the values the operations setter receives: a valid set and a cyclic one
OperationsValues ==
    {Merge(<<Collection("tdp_core", <<HdfsHead>>, {})>>).operations,
     Merge(<<Collection("tdp_core", <<DbCycle>>, {})>>).operations}

\* the operations of the ordering inputs
OrderingNames == <<hdfs_config, hdfs_install, knox_install, db_install>>

\* the dependencies an ordering input may declare: one operation on another
OrderingDependencies ==
    {pair \in Range(OrderingNames) \X Range(OrderingNames) : pair[1] # pair[2]}

\* the ordering inputs: one collection that declares the four operations,
\* with up to MaxDependencies dependencies between them
OrderingCollections ==
    {<<Collection("tdp_core",
          <<[i \in DOMAIN OrderingNames |->
                Declaration(OrderingNames[i],
                    Sorted({pair[1] : pair \in
                              {d \in declared : d[2] = OrderingNames[i]}}),
                    FALSE)]>>,
          Range(OrderingNames))>> :
        declared \in BoundedSubsets(OrderingDependencies, MaxDependencies)}

\* the values the collections setter receives: the inputs of one collection
\* at most
SetterCollections == {colls \in LifecycleCollections : Len(colls) <= 1}

-----------------------------------------------------------------------------
(* The state machine: one action per call on the Dag object.               *)

\* what the caller of the last call observed
Observed(call, nodes, result) ==
    [call |-> call, nodes |-> nodes, err |-> result.err, ret |-> result.ret,
     log |-> result.log]

\* the object and the observation after a call
Called(call, nodes, result) ==
    /\ collections' = result.self.collections
    /\ operations' = result.self.operations
    /\ graph' = result.self.graph
    /\ services_operations' = result.self.services_operations
    /\ services' = result.self.services
    /\ last' = Observed(call, nodes, result)

Returned(self) == Result(self, "none", NoLog, <<>>)

Constructed(colls) ==
    /\ collections = colls
    /\ operations = None
    /\ graph = None
    /\ services_operations = None
    /\ services = None
    /\ last = Observed("init", {}, Returned(Self))

Init == \E colls \in LifecycleCollections : Constructed(colls)

InitOrdering == \E colls \in OrderingCollections : Constructed(colls)

SetCollections(value) ==
    /\ Called("collections.setter", {}, Returned(collections_set(Self, value)))

SetOperations(value) ==
    /\ Called("operations.setter", {}, Returned(operations_set(Self, Some(value))))

DelOperations ==
    /\ Called("operations.deleter", {}, Returned(operations_del(Self)))

DelGraph ==
    /\ Called("graph.deleter", {}, Returned(graph_del(Self)))

DelServicesOperations ==
    /\ Called("services_operations.deleter", {},
              Returned(services_operations_del(Self)))

DelServices ==
    /\ Called("services.deleter", {}, Returned(services_del(Self)))

GetOperations ==
    /\ Called("operations", {}, operations_get(Self))

GetGraph ==
    /\ Called("graph", {}, graph_get(Self))

GetServicesOperations ==
    /\ Called("services_operations", {}, services_operations_get(Self))

GetServices ==
    /\ Called("services", {}, services_get(Self))

GetAllOperations ==
    /\ Called("get_all_operations", {}, get_all_operations(Self))

GetOperationsToNodes(nodes) ==
    /\ Called("get_operations_to_nodes", nodes,
              get_operations_to_nodes(Self, nodes))

GetOperationsFromNodes(nodes) ==
    /\ Called("get_operations_from_nodes", nodes,
              get_operations_from_nodes(Self, nodes))

Lookup(node) ==
    /\ Called("lookup", {node}, lookup(Self, node))

Next ==
    \/ \E value \in SetterCollections : SetCollections(value)
    \/ \E value \in OperationsValues : SetOperations(value)
    \/ DelOperations
    \/ DelGraph
    \/ DelServicesOperations
    \/ DelServices
    \/ GetOperations
    \/ GetGraph
    \/ GetServicesOperations
    \/ GetServices
    \/ GetAllOperations
    \/ \E nodes \in BoundedSubsets(LifecycleNodes, MaxNodes) :
          GetOperationsToNodes(nodes)
    \/ \E nodes \in BoundedSubsets(LifecycleNodes, MaxNodes) :
          GetOperationsFromNodes(nodes)
    \/ \E node \in LifecycleNodes : Lookup(node)

Spec == Init /\ [][Next]_vars

NextOrdering ==
    \/ GetGraph
    \/ GetAllOperations
    \/ \E nodes \in BoundedSubsets(Range(OrderingNames), MaxNodes) :
          GetOperationsToNodes(nodes)
    \/ \E nodes \in BoundedSubsets(Range(OrderingNames), MaxNodes) :
          GetOperationsFromNodes(nodes)

SpecOrdering == InitOrdering /\ [][NextOrdering]_vars

-----------------------------------------------------------------------------
(* The vocabulary of the properties, defined on the declarations and not   *)
(* on the graph the engine builds.                                         *)

\* the (dependency, dependent) pairs the operations declare
DeclaredDependencies(ops) ==
    UNION {{<<ops[i].depends_on[j], ops[i].name>> : j \in DOMAIN ops[i].depends_on} :
           i \in DOMAIN ops}

EndsOf(E) == {e[1] : e \in E} \cup {e[2] : e \in E}

StepFrom(E, S) == {e[2] : e \in {f \in E : f[1] \in S}}

RECURSIVE StepsFrom(_, _, _)
StepsFrom(E, S, k) ==
    IF k = 0 THEN S ELSE StepsFrom(E, S \cup StepFrom(E, S), k - 1)

\* the names a path of one edge or more leads to from `a`
After(E, a) == StepsFrom(E, StepFrom(E, {a}), Cardinality(E))

\* the names from which a path of one edge or more leads to `b`
Before(E, b) == {a \in EndsOf(E) : b \in After(E, a)}

HasCycle(E) == \E n \in EndsOf(E) : n \in After(E, n)

Position(seq, x) == CHOOSE i \in DOMAIN seq : seq[i] = x

\* seq lists the elements of S, each once
Lists(seq, S) == Len(seq) = Cardinality(S) /\ Range(seq) = S

\* seq with the elements outside S removed
Restriction(seq, S) == SelectSeq(seq, LAMBDA x : x \in S)

\* seq puts every dependency among its elements before its dependent
RespectsDependencies(E, seq) ==
    \A e \in E :
        e[1] \in Range(seq) /\ e[2] \in Range(seq)
            => Position(seq, e[1]) < Position(seq, e[2])

\* every position of seq holds the node with the smallest key among the
\* nodes not yet listed whose dependencies inside seq are all listed
SmallestKeyFirst(ops, E, seq) ==
    \A i \in DOMAIN seq :
        LET listed == {seq[j] : j \in 1..(i - 1)}
            ready == {n \in Range(seq) \ listed :
                        \A e \in E :
                            e[2] = n /\ e[1] \in Range(seq) => e[1] \in listed}
        IN  /\ seq[i] \in ready
            /\ \A m \in ready \ {seq[i]} :
                   StrLess(custom_key(ops, seq[i]), custom_key(ops, m))

Returns(call) == last.call = call /\ last.err = "none"

\* the calls that read the graph
GraphCalls ==
    {"graph", "get_all_operations", "get_operations_to_nodes",
     "get_operations_from_nodes"}

-----------------------------------------------------------------------------
(* The ordering queries (SpecOrdering).                                    *)

\* C1: the full order lists every operation once and puts every dependency
\* before its dependent.
TotalOrderIsTopological ==
    Returns("get_all_operations") =>
        /\ Lists(last.ret, OperationNames(operations[1]))
        /\ RespectsDependencies(DeclaredDependencies(operations[1]), last.ret)

\* C1 witness: a full order of four operations with two dependencies or more
TotalOrderWitness ==
    /\ Returns("get_all_operations")
    /\ Len(last.ret) = 4
    /\ Cardinality(DeclaredDependencies(operations[1])) >= 2

\* the targets and everything before them
TargetsClosure ==
    last.nodes \cup
        UNION {Before(DeclaredDependencies(operations[1]), n) : n \in last.nodes}

\* C2: get_operations_to_nodes(T), T not empty, returns T and the ancestors
\* of T, each once and nothing else, in the order get_all_operations() lists
\* them.
OrderToTargetsIsRestriction ==
    Returns("get_operations_to_nodes") /\ last.nodes # {} =>
        /\ Lists(last.ret, TargetsClosure)
        /\ last.ret = Restriction(get_all_operations(Self).ret, TargetsClosure)

\* C2 witness: two targets, with ancestors, that leave an operation out
OrderToTargetsWitness ==
    /\ Returns("get_operations_to_nodes")
    /\ Cardinality(last.nodes) = 2
    /\ Len(last.ret) = 3

\* the sources and everything after them
SourcesClosure ==
    last.nodes \cup
        UNION {After(DeclaredDependencies(operations[1]), n) : n \in last.nodes}

\* C3 as claimed: get_operations_from_nodes(S) is get_all_operations() with
\* the nodes outside S and its descendants removed.
OrderFromSourcesIsRestriction ==
    Returns("get_operations_from_nodes") /\ last.nodes # {} =>
        /\ Lists(last.ret, SourcesClosure)
        /\ last.ret = Restriction(get_all_operations(Self).ret, SourcesClosure)

\* C3 as amended: get_operations_from_nodes(S), S not empty, returns S and the
\* descendants of S, each once and nothing else, in the priority order of the
\* subgraph induced on them: every dependency inside the closure before its
\* dependent, the smallest key first among the nodes that are ready.
OrderFromSourcesIsSubgraphOrder ==
    Returns("get_operations_from_nodes") /\ last.nodes # {} =>
        /\ Lists(last.ret, SourcesClosure)
        /\ RespectsDependencies(DeclaredDependencies(operations[1]), last.ret)
        /\ SmallestKeyFirst(operations[1],
                            DeclaredDependencies(operations[1]), last.ret)

\* C3 witness: a closure with descendants whose order is not the full order's
OrderFromSourcesWitness ==
    /\ Returns("get_operations_from_nodes")
    /\ last.nodes # {}
    /\ Len(last.ret) > Cardinality(last.nodes)
    /\ last.ret # Restriction(get_all_operations(Self).ret, SourcesClosure)

\* two operations with no path between them, the first of a service of
\* smaller priority
Unordered(E, a, b) ==
    /\ a # b
    /\ b \notin After(E, a)
    /\ a \notin After(E, b)
    /\ PriorityOf(ServiceOf(a)) < PriorityOf(ServiceOf(b))

\* C4 as claimed: of two operations with no path between them, the one of the
\* service of smaller priority comes first in the full order.
PriorityDecidesUnordered ==
    Returns("get_all_operations") =>
        \A a, b \in Range(last.ret) :
            Unordered(DeclaredDependencies(operations[1]), a, b)
                => Position(last.ret, a) < Position(last.ret, b)

\* C4 as amended: of two operations with no path between them, the one of the
\* service of smaller priority comes first in the full order when each of its
\* ancestors is an ancestor of the other operation too (so always when it has
\* no dependency), whatever the alphabetical order of the names.
PriorityDecidesWhenReady ==
    Returns("get_all_operations") =>
        \A a, b \in Range(last.ret) :
            /\ Unordered(DeclaredDependencies(operations[1]), a, b)
            /\ Before(DeclaredDependencies(operations[1]), a)
                   \subseteq Before(DeclaredDependencies(operations[1]), b)
            => Position(last.ret, a) < Position(last.ret, b)

\* C4 witness: such a pair with ancestors, the names in the other order
PriorityWitness ==
    /\ Returns("get_all_operations")
    /\ \E a, b \in Range(last.ret) :
          /\ Unordered(DeclaredDependencies(operations[1]), a, b)
          /\ Before(DeclaredDependencies(operations[1]), a) # {}
          /\ Before(DeclaredDependencies(operations[1]), a)
                 \subseteq Before(DeclaredDependencies(operations[1]), b)
          /\ StrLess(b, a)
          /\ Position(last.ret, a) < Position(last.ret, b)

-----------------------------------------------------------------------------
(* The caches and the fatal errors (Spec).                                 *)

\* the graph of the operations: a node per name, an edge per dependency
GraphOf(ops) ==
    [nodes |-> OperationNames(ops), edges |-> DeclaredDependencies(ops)]

\* C5: right after a collections change the four caches are empty, and a
\* cached graph, service index or service list is the one of the cached
\* operations.
NoStaleCache ==
    /\ last.call = "collections.setter" =>
           /\ operations = None
           /\ graph = None
           /\ services_operations = None
           /\ services = None
    /\ graph # None =>
           operations # None /\ graph[1] = GraphOf(operations[1])
    /\ services_operations # None =>
           /\ operations # None
           /\ services_operations[1] = ServiceIndex(operations[1])
    /\ services # None =>
           /\ operations # None
           /\ services[1] = ServiceKeys(ServiceIndex(operations[1]))

\* the cached operations declare a cycle
Cyclic == operations # None /\ HasCycle(DeclaredDependencies(operations[1]))

\* every dependency of the cached operations is an operation
Resolved ==
    \A e \in DeclaredDependencies(operations[1]) :
        e[1] \in OperationNames(operations[1])

\* C6 as claimed: with a cycle in the operations every read of the graph
\* fails with the not-a-DAG error and leaves the graph cache empty, and a
\* cached graph is acyclic.
CycleRaisesNotADag ==
    /\ Cyclic /\ last.call \in GraphCalls =>
           last.err = "not_a_dag" /\ last.ret = <<>> /\ graph = None
    /\ graph # None => ~ HasCycle(graph[1].edges)

\* C6 as amended: with a cycle in the operations the graph cache is empty and
\* every read of the graph fails and returns no sequence: with the not-a-DAG
\* error when every dependency is an operation, with the error of the unknown
\* dependency otherwise; a cached graph is acyclic.
CycleNeverTolerated ==
    /\ Cyclic => graph = None
    /\ Cyclic /\ last.call \in GraphCalls =>
           /\ last.ret = <<>>
           /\ IF Resolved THEN last.err = "not_a_dag"
              ELSE last.err \in {"key_error", "unknown_dependency"}
    /\ graph # None => ~ HasCycle(graph[1].edges)

\* C6 witness: a full order asked of operations with a cycle, all resolved
CycleWitness ==
    /\ Cyclic
    /\ Resolved
    /\ last.call = "get_all_operations"
    /\ last.err = "not_a_dag"

\* the position in Declared(collections) of the first declaration of a name
\* declared before, or 0
SecondDeclaration ==
    LET declared == Declared(collections)
        second == {j \in DOMAIN declared :
                     \E i \in 1..(j - 1) :
                         declared[i].declaration.name = declared[j].declaration.name}
    IN  IF second = {} THEN 0
        ELSE CHOOSE j \in second : \A k \in second : j <= k

\* the position of the first declaration of the name declared at j
FirstDeclaration(j) ==
    LET declared == Declared(collections)
        same == {i \in DOMAIN declared :
                    declared[i].declaration.name = declared[j].declaration.name}
    IN  CHOOSE i \in same : \A k \in same : i <= k

\* the calls that merge the collections when no operations are cached
MergingCalls == GraphCalls \cup {"operations", "lookup"}

\* C7: with a name declared twice in the collections the merge never fills
\* the operations cache; the read that merges fails with the duplicate error,
\* which names the collection of the first declaration and then the
\* collection of the second, and the validator is not run.
DuplicateIsFatal ==
    SecondDeclaration # 0 =>
        /\ operations # None => operations[1] \in OperationsValues
        /\ last.call \in MergingCalls /\ operations = None =>
               /\ last.err = "duplicate"
               /\ last.log.first =
                      Declared(collections)[FirstDeclaration(SecondDeclaration)]
                          .collection_name
               /\ last.log.second =
                      Declared(collections)[SecondDeclaration].collection_name
               /\ ~ last.log.validated

\* C7 witness: a name declared by two collections, the operations read
DuplicateWitness ==
    /\ SecondDeclaration # 0
    /\ last.call = "operations"
    /\ last.err = "duplicate"
    /\ last.log.first # last.log.second
    /\ operations = None

\* C8: the validator returns whenever it runs, and the read of the operations
\* of collections without a duplicate succeeds.
ValidateNeverRaises ==
    /\ last.log.validated => last.log.validate_returned
    /\ last.call = "operations" /\ SecondDeclaration = 0 => last.err = "none"

FatalErrors == {"duplicate", "key_error", "unknown_dependency", "not_a_dag"}

ReadCalls == MergingCalls \cup {"services_operations", "services"}

\* C9: a call that fails with a fatal error leaves the operations cache and
\* the graph cache empty, and the read that follows it on the same
\* collections fails too.
FatalErrorStays ==
    [][/\ last'.err \in FatalErrors => operations' = None /\ graph' = None
       /\ /\ last.err \in FatalErrors
          /\ collections' = collections
          /\ last'.call \in ReadCalls
          => last'.err # "none"]_vars

\* the services of the operations, and the lifecycle actions of a service
ServicesOf(ops) == {ServiceOf(ops[i].name) : i \in DOMAIN ops}

LifecycleActionsOf(ops, service) ==
    {ActionOf(ops[i].name) :
        i \in {k \in DOMAIN ops :
                 ServiceOf(ops[k].name) = service /\ IsService(ops[k].name)}}

\* C10: when the validator runs, a service gets the missing-lifecycle warning
\* exactly when its lifecycle actions do not cover install, config, start and
\* init.
LifecycleWarningIffIncomplete ==
    last.log.validated =>
        \A service \in ServicesOf(operations[1]) :
            (\E i \in DOMAIN last.log.warnings :
                /\ last.log.warnings[i].rule = "missing_lifecycle_action"
                /\ last.log.warnings[i].operation = service)
            <=> ~ (actions_for_service
                       \subseteq LifecycleActionsOf(operations[1], service))

====
